---- MODULE Spec2Model ----
(***************************************************************************)
(* A model of the genetic-algorithm engine for the Vehicle Routing Problem *)
(* (src/src/vrp/algorithm): Chromosome (encoding, decoding, fitness),      *)
(* Population (random initial chromosomes, best, average) and Genetic      *)
(* (selection, crossover, mutation, elitism, the generation loop of run).  *)
(*                                                                         *)
(* Conventions.  A Python list is a TLA+ sequence; a Python index p is the *)
(* TLA+ index p + 1, and every position, cut point and loop index below    *)
(* keeps its Python (0-based) value.  Distances are naturals.  The average *)
(* total / len, a float in the code, is kept as the pair of its numerator  *)
(* and denominator.  Every draw from the random module is a choice (\E, or *)
(* a set of outcomes).                                                     *)
(***************************************************************************)
EXTENDS Integers, Sequences, FiniteSets, TLC

VARIABLES
    \* Population
    pop_size, num_locations, num_vehicles, distance_matrix, chromosomes,
    \* Genetic
    max_generations, elitism_size, current_generation, best_solution,
    best_fitness_history, avg_fitness_history,
    \* Genetic.run: where the call stands, its loop variable, what it returned
    pc, generation, returned,
    \* one call of a chromosome operation or a genetic operator on its own:
    \* the arguments (with the values drawn at random) and the result
    call, result

vars == <<pop_size, num_locations, num_vehicles, distance_matrix, chromosomes,
          max_generations, elitism_size, current_generation, best_solution,
          best_fitness_history, avg_fitness_history, pc, generation, returned,
          call, result>>

population_vars == <<pop_size, num_locations, num_vehicles, distance_matrix>>
parameter_vars == <<max_generations, elitism_size>>
engine_vars == <<chromosomes, current_generation, best_solution,
                 best_fitness_history, avg_fitness_history>>

(***************************************************************************)
(* Bounds of the model.                                                    *)
(***************************************************************************)
\* Largest pop_size of an engine run.
MaxPop == 2
\* Largest max_generations of an engine run.
MaxGen == 1
\* Largest num_locations / num_vehicles of a chromosome handed to the
\* chromosome operations (get_routes, calculate_fitness).
MaxLoc == 3
MaxVeh == 3
\* Largest gene length handed to the genetic operators (crossover, mutate).
MaxLen == 4

(***************************************************************************)
(* Values of the program.                                                  *)
(***************************************************************************)
\* Python's None (an unset fitness, an unfilled offspring position).
None == -2
\* Chromosome.depot_index
depot_index == -1

\* Python's s[a:b] for 0 <= a and b <= len(s).
Slice(s, a, b) == IF a >= b THEN << >> ELSE SubSeq(s, a + 1, b)

\* list(range(n))
Range(n) == [i \in 1..n |-> i - 1]

\* The values of a list, as a set.
Values(s) == {s[i] : i \in 1..Len(s)}

\* The orderings of a finite set.
RECURSIVE Orderings(_)
Orderings(S) ==
    IF S = {} THEN {<< >>}
    ELSE UNION {{<<x>> \o p : p \in Orderings(S \ {x})} : x \in S}

\* Every outcome of random.shuffle(list(range(n))): the orderings of 0..n-1.
Shuffles(n) == Orderings(Values(Range(n)))

\* Every outcome of random.sample(range(n), 2): two distinct indices, in
\* the order drawn.  (random.sample raises ValueError when n < 2.)
Sample2(n) == {p \in (0..(n - 1)) \X (0..(n - 1)) : p[1] # p[2]}

(***************************************************************************)
(* The distance matrix: an input of the program (index 0 is the depot).    *)
(* The entries the specification's worked example fixes are kept; the      *)
(* others are filled in, symmetric and non-negative.                       *)
(***************************************************************************)
Entry(i, j) ==
    LET a == IF i < j THEN i ELSE j
        b == IF i < j THEN j ELSE i
    IN  CASE a = b -> 0
          [] a = 0 /\ b = 1 -> 2
          [] a = 0 /\ b = 2 -> 2
          [] a = 0 /\ b = 3 -> 4
          [] a = 0 /\ b = 5 -> 3
          [] a = 1 /\ b = 2 -> 3
          [] a = 1 /\ b = 3 -> 6
          [] a = 2 /\ b = 3 -> 2
          [] a = 3 /\ b = 4 -> 1
          [] a = 4 /\ b = 5 -> 1
          [] OTHER -> ((a + b) % 4) + 1

\* A square matrix of dimension n, rows and columns indexed from 0.
Matrix(n) == [i \in 0..(n - 1) |-> [j \in 0..(n - 1) |-> Entry(i, j)]]

(***************************************************************************)
(* Chromosome                                                              *)
(***************************************************************************)
\* Chromosome(num_locations, num_vehicles, genes): fitness starts None.
Chromosome(nl, nv, g) ==
    [num_locations |-> nl, num_vehicles |-> nv, genes |-> g, fitness |-> None]

\* Chromosome(num_locations, num_vehicles): the outcomes of the shuffle.
RandomChromosomes(nl, nv) == {Chromosome(nl, nv, g) : g \in Shuffles(nl + nv - 1)}

\* get_routes, first loop: the positions of the delimiter-valued genes.
RECURSIVE DelimiterPositions(_, _, _)
DelimiterPositions(c, i, acc) ==
    IF i >= Len(c.genes) THEN acc
    ELSE IF c.num_locations <= c.genes[i + 1]
            /\ c.genes[i + 1] < c.num_locations + c.num_vehicles - 1
         THEN DelimiterPositions(c, i + 1, Append(acc, i))
         ELSE DelimiterPositions(c, i + 1, acc)

\* list.sort() of a list of integers (insertion into an ascending list).
RECURSIVE InsertAsc(_, _)
InsertAsc(s, x) ==
    IF s = << >> THEN <<x>>
    ELSE IF x < Head(s) THEN <<x>> \o s
         ELSE <<Head(s)>> \o InsertAsc(Tail(s), x)

RECURSIVE SortAsc(_)
SortAsc(s) == IF s = << >> THEN << >> ELSE InsertAsc(SortAsc(SubSeq(s, 1, Len(s) - 1)), s[Len(s)])

\* [loc for loc in route if loc < self.num_locations]
FilterLocations(c, route) == SelectSeq(route, LAMBDA loc : loc < c.num_locations)

\* The split as it would be without `routes.append(last_route)`: the section
\* after the last delimiter is lost.
RECURSIVE SplitRoutes_no_last(_, _, _, _)
SplitRoutes_no_last(c, dps, start_idx, routes) ==
    IF dps = << >>
    THEN routes
    ELSE SplitRoutes_no_last(c, Tail(dps), Head(dps) + 1,
                             Append(routes, FilterLocations(c, Slice(c.genes, start_idx, Head(dps)))))

\* get_routes, second loop and the last route: the sections the delimiters cut.
RECURSIVE SplitRoutes(_, _, _, _)
SplitRoutes(c, dps, start_idx, routes) ==
    IF dps = << >>
    THEN Append(routes, FilterLocations(c, Slice(c.genes, start_idx, Len(c.genes))))
    ELSE SplitRoutes(c, Tail(dps), Head(dps) + 1,
                     Append(routes, FilterLocations(c, Slice(c.genes, start_idx, Head(dps)))))

\* The third loop as it would be without `if route:`: an empty section
\* becomes the route [depot, depot].
RECURSIVE CompleteRoutes_keep_empty(_, _)
CompleteRoutes_keep_empty(c, routes) ==
    IF routes = << >> THEN << >>
    ELSE <<(<<depot_index>> \o Head(routes) \o <<depot_index>>)>>
             \o CompleteRoutes_keep_empty(c, Tail(routes))

\* get_routes, third loop: the depot around every non-empty route.
RECURSIVE CompleteRoutes(_, _)
CompleteRoutes(c, routes) ==
    IF routes = << >> THEN << >>
    ELSE IF Head(routes) # << >>
         THEN <<(<<depot_index>> \o Head(routes) \o <<depot_index>>)>> \o CompleteRoutes(c, Tail(routes))
         ELSE CompleteRoutes(c, Tail(routes))

get_routes(c) ==
    CompleteRoutes(c, SplitRoutes(c, SortAsc(DelimiterPositions(c, 0, << >>)), 0, << >>))

\* The index as it would be without the shift by one: location v read at
\* matrix index v, the depot's row for location 0.
MatrixIndex_no_shift(stop) == IF stop = depot_index THEN 0 ELSE stop

\* calculate_fitness: the matrix index of a stop.
MatrixIndex(stop) == IF stop = depot_index THEN 0 ELSE stop + 1

\* calculate_fitness, inner loop: the distance of one route.
RECURSIVE RouteDistance(_, _, _, _)
RouteDistance(route, dm, i, route_distance) ==
    IF i >= Len(route) - 1 THEN route_distance
    ELSE RouteDistance(route, dm, i + 1,
                       route_distance + dm[MatrixIndex(route[i + 1])][MatrixIndex(route[i + 2])])

\* calculate_fitness, outer loop: the total over the routes.
RECURSIVE TotalDistance(_, _, _)
TotalDistance(routes, dm, total_distance) ==
    IF routes = << >> THEN total_distance
    ELSE TotalDistance(Tail(routes), dm, total_distance + RouteDistance(Head(routes), dm, 0, 0))

\* The value calculate_fitness returns.
calculate_fitness(c, dm) == TotalDistance(get_routes(c), dm, 0)

\* The chromosome after calculate_fitness: the value is stored in fitness.
Evaluated(c, dm) == [c EXCEPT !.fitness = calculate_fitness(c, dm)]

(***************************************************************************)
(* Population                                                              *)
(***************************************************************************)
\* initialize_population: every outcome of pop_size random chromosomes,
\* each with its fitness calculated.
RECURSIVE InitialPopulations(_, _, _, _)
InitialPopulations(n, nl, nv, dm) ==
    IF n = 0 THEN {<< >>}
    ELSE {Append(p, Evaluated(c, dm)) :
              p \in InitialPopulations(n - 1, nl, nv, dm), c \in RandomChromosomes(nl, nv)}

\* sorted(chromosomes, key=lambda x: x.fitness): a stable ascending sort.
RECURSIVE InsertByFitness(_, _)
InsertByFitness(s, c) ==
    IF s = << >> THEN <<c>>
    ELSE IF c.fitness < Head(s).fitness THEN <<c>> \o s
         ELSE <<Head(s)>> \o InsertByFitness(Tail(s), c)

RECURSIVE SortedByFitness(_)
SortedByFitness(s) ==
    IF s = << >> THEN << >>
    ELSE InsertByFitness(SortedByFitness(SubSeq(s, 1, Len(s) - 1)), s[Len(s)])

\* find_best_chromosome (None for an empty population).
find_best_chromosome(chroms) ==
    IF chroms = << >> THEN None ELSE SortedByFitness(chroms)[1]

\* sum(chrom.fitness for chrom in chromosomes)
RECURSIVE TotalFitness(_)
TotalFitness(chroms) ==
    IF chroms = << >> THEN 0 ELSE Head(chroms).fitness + TotalFitness(Tail(chroms))

\* get_average_fitness: total_fitness / len(chromosomes), kept as the pair.
get_average_fitness(chroms) ==
    IF chroms = << >> THEN [total |-> 0, count |-> 1]
    ELSE [total |-> TotalFitness(chroms), count |-> Len(chroms)]

(***************************************************************************)
(* Genetic: the operators                                                  *)
(***************************************************************************)
\* The tournament as it would be with the comparison the wrong way round:
\* the contender of higher fitness (the longer distance) wins.
Winner_higher(contenders) ==
    IF contenders[1].fitness >= contenders[2].fitness THEN contenders[1] ELSE contenders[2]

\* selection, one tournament: the winner of the contenders drawn.
Winner(contenders) ==
    IF contenders[1].fitness <= contenders[2].fitness THEN contenders[1] ELSE contenders[2]

\* selection, one tournament: random.sample(chromosomes, 2), by position.
Contenders(chroms) == {<<chroms[p[1] + 1], chroms[p[2] + 1]>> : p \in Sample2(Len(chroms))}

\* selection: every list it can return (two tournaments, two winners).
Selection(chroms) ==
    {<<Winner(c1), Winner(c2)>> : c1 \in Contenders(chroms), c2 \in Contenders(chroms)}

\* crossover, step 1: sorted(random.sample(range(chromosome_length), 2)).
CutPoints(chromosome_length) ==
    {<<IF p[1] < p[2] THEN p[1] ELSE p[2], IF p[1] < p[2] THEN p[2] ELSE p[1]>> :
         p \in Sample2(chromosome_length)}

\* crossover, steps 2a/3a: [None] * chromosome_length with the middle
\* segment copied from the donor parent.
MiddleSegment(donor, chromosome_length, point1, point2) ==
    [i \in 1..chromosome_length |->
        IF point1 <= i - 1 /\ i - 1 < point2 THEN donor[i] ELSE None]

\* The while loop as it would be without the membership test: the filling
\* parent is consumed in order, used values included.
NextUnused_no_skip(filler, chromosome_length, parent_index, used_values) == parent_index

\* crossover, steps 2c/3c, the while loop: the next index of the filling
\* parent whose value is unused.
RECURSIVE NextUnused(_, _, _, _)
NextUnused(filler, chromosome_length, parent_index, used_values) ==
    IF parent_index < chromosome_length /\ filler[parent_index + 1] \in used_values
    THEN NextUnused(filler, chromosome_length, parent_index + 1, used_values)
    ELSE parent_index

\* crossover, steps 2c/3c, the for loop over the positions.
RECURSIVE FillRemaining(_, _, _, _, _, _, _, _)
FillRemaining(filler, chromosome_length, point1, point2, i, parent_index, genes, used_values) ==
    IF i >= chromosome_length THEN genes
    ELSE IF point1 <= i /\ i < point2
         THEN FillRemaining(filler, chromosome_length, point1, point2, i + 1,
                            parent_index, genes, used_values)
         ELSE LET k == NextUnused(filler, chromosome_length, parent_index, used_values)
              IN  IF k < chromosome_length
                  THEN FillRemaining(filler, chromosome_length, point1, point2, i + 1, k + 1,
                                     [genes EXCEPT ![i + 1] = filler[k + 1]],
                                     used_values \cup {filler[k + 1]})
                  ELSE FillRemaining(filler, chromosome_length, point1, point2, i + 1, k,
                                     genes, used_values)

\* The offspring as it would be if the fill loop read the parent the middle
\* segment came from: the rest is filled, in order, from the donor.
OffspringGenes_fill_from_donor(filler, donor, chromosome_length, point1, point2) ==
    LET middle == MiddleSegment(donor, chromosome_length, point1, point2)
    IN  FillRemaining(donor, chromosome_length, point1, point2, 0, 0, middle,
                      Values(Slice(middle, point1, point2)))

\* The offspring as it would be without step 2b/3b (used_values starting
\* empty): the fill does not know the values of the middle segment.
OffspringGenes_no_used(filler, donor, chromosome_length, point1, point2) ==
    FillRemaining(filler, chromosome_length, point1, point2, 0, 0,
                  MiddleSegment(donor, chromosome_length, point1, point2), {})

\* crossover, steps 2/3: the genes of the offspring that takes its middle
\* segment from donor and the rest, in order, from filler.
OffspringGenes(filler, donor, chromosome_length, point1, point2) ==
    LET middle == MiddleSegment(donor, chromosome_length, point1, point2)
    IN  FillRemaining(filler, chromosome_length, point1, point2, 0, 0, middle,
                      Values(Slice(middle, point1, point2)))

\* crossover with the cut points drawn: <<offspring1, offspring2>>.
crossover(parent1, parent2, point1, point2) ==
    LET chromosome_length == Len(parent1.genes)
    IN  <<Chromosome(parent1.num_locations, parent1.num_vehicles,
                     OffspringGenes(parent1.genes, parent2.genes, chromosome_length, point1, point2)),
          Chromosome(parent1.num_locations, parent1.num_vehicles,
                     OffspringGenes(parent2.genes, parent1.genes, chromosome_length, point1, point2))>>

\* mutate as it would be with the swap written as one assignment: the gene
\* at pos2 is copied over the gene at pos1 and never written back.
mutate_overwrite(chromosome, pos1, pos2) ==
    Chromosome(chromosome.num_locations, chromosome.num_vehicles,
               [chromosome.genes EXCEPT ![pos1 + 1] = chromosome.genes[pos2 + 1]])

\* mutate as it would be if the new chromosome were a copy of the input
\* with its genes swapped: the fitness of the input's genes is carried over.
mutate_keep_fitness(chromosome, pos1, pos2) ==
    [chromosome EXCEPT !.genes = [chromosome.genes EXCEPT ![pos1 + 1] = chromosome.genes[pos2 + 1],
                                                          ![pos2 + 1] = chromosome.genes[pos1 + 1]]]

\* mutate with the positions drawn: a new chromosome, the two genes swapped.
mutate(chromosome, pos1, pos2) ==
    Chromosome(chromosome.num_locations, chromosome.num_vehicles,
               [chromosome.genes EXCEPT ![pos1 + 1] = chromosome.genes[pos2 + 1],
                                        ![pos2 + 1] = chromosome.genes[pos1 + 1]])

(***************************************************************************)
(* Genetic: create_next_generation                                         *)
(***************************************************************************)
\* len(sorted_chromosomes[:self.elitism_size]): a slice stops at the end
\* of the list.
EliteSize(chroms, elitism) == IF elitism < Len(chroms) THEN elitism ELSE Len(chroms)

\* The elite as it would be without the sort: the first elitism_size
\* chromosomes of the population as it stands.
Elite_unsorted(chroms, elitism) == Slice(chroms, 0, EliteSize(chroms, elitism))

\* The elite as it would be with the sort descending (reverse=True): the
\* elitism_size chromosomes of highest fitness, the worst first.
Elite_worst(chroms, elitism) ==
    LET sorted_chromosomes == SortedByFitness(chroms)
        n == Len(sorted_chromosomes)
    IN  [i \in 1..EliteSize(chroms, elitism) |-> sorted_chromosomes[n + 1 - i]]

\* copy.deepcopy(sorted_chromosomes[:self.elitism_size])
Elite(chroms, elitism) == Slice(SortedByFitness(chroms), 0, EliteSize(chroms, elitism))

\* random.choice(selected), twice, then crossover: every offspring pair a
\* round can produce from the list selection returned.
Crossed(selected) ==
    UNION {{crossover(parent1, parent2, pts[1], pts[2]) : pts \in CutPoints(Len(parent1.genes))} :
               parent1 \in Values(selected), parent2 \in Values(selected)}

\* `if random.random() < self.mutation_rate: offspring = self.mutate(offspring)`
\* for 0 < mutation_rate < 1: the offspring as it is, or mutated at two
\* positions drawn by random.sample.
MaybeMutated(offspring) ==
    {offspring} \cup {mutate(offspring, p[1], p[2]) : p \in Sample2(Len(offspring.genes))}

\* The evaluation as it would be if calculate_fitness were called before the
\* mutation: a mutated offspring carries the fitness of the genes it had.
Finished_before_mutation(offspring, dm) ==
    {[m EXCEPT !.fitness = calculate_fitness(offspring, dm)] : m \in MaybeMutated(offspring)}

\* Mutation (or not) followed by calculate_fitness: what one offspring can
\* be when it is appended.
Finished(offspring, dm) == {Evaluated(m, dm) : m \in MaybeMutated(offspring)}

\* Every pair <<offspring1, offspring2>>, mutated or not and evaluated, that
\* one pass of the while body can produce from the current population.  (The
\* code mutates and evaluates offspring2 only when there is room for it;
\* AppendOffspring uses its second component only then.)
RoundOffspring(chroms, dm) ==
    UNION {Finished(offspring[1], dm) \X Finished(offspring[2], dm) :
               offspring \in UNION {Crossed(selected) :
                   selected \in {sel \in Selection(chroms) : ~(Len(sel) < 2)}}}

\* `if len(selected) < 2: break` can be taken.
CanBreak(chroms) == \E selected \in Selection(chroms) : Len(selected) < 2

\* The appends as they would be without `if len(new_population) <
\* self.population.pop_size`: both offspring, room or not.
AppendOffspring_both(new_population, offspring, size) ==
    Append(Append(new_population, offspring[1]), offspring[2])

\* The appends of a round: offspring1 always, offspring2 if there is still
\* room.
AppendOffspring(new_population, offspring, size) ==
    LET with1 == Append(new_population, offspring[1])
    IN  IF Len(with1) < size THEN Append(with1, offspring[2]) ELSE with1

\* while len(new_population) < self.population.pop_size: every population
\* the loop can end with, given what a round can produce.
RECURSIVE ReproductionLoop(_, _, _, _)
ReproductionLoop(new_population, rounds, canBreak, size) ==
    IF ~(Len(new_population) < size) THEN {new_population}
    ELSE (IF canBreak THEN {new_population} ELSE {})
         \cup UNION {ReproductionLoop(np, rounds, canBreak, size) :
                         np \in {AppendOffspring(new_population, offspring, size) :
                                     offspring \in rounds}}

\* Every population create_next_generation can build: the elite, then the
\* reproduction loop.
NewPopulations(chroms, elitism, size, dm) ==
    ReproductionLoop(Elite(chroms, elitism), RoundOffspring(chroms, dm), CanBreak(chroms), size)

\* random.sample(self.population.chromosomes, 2) raises ValueError when the
\* population holds fewer than 2 chromosomes.
SelectionRaises(chroms) == Len(chroms) < 2

\* create_next_generation raises (out of selection, in the first round).
GenerationRaises ==
    /\ EliteSize(chromosomes, elitism_size) < pop_size
    /\ SelectionRaises(chromosomes)

\* The update as it would be with the comparison the wrong way round.
UpdatedBest_reversed(current_best, best) ==
    IF current_best.fitness > best.fitness THEN current_best ELSE best

\* The update as it would be without the comparison: the incumbent is the
\* current population's best.
UpdatedBest_always(current_best, best) == current_best

\* The update as it would be with `<=`: a new best of equal fitness replaces
\* the incumbent.
UpdatedBest_or_equal(current_best, best) ==
    IF current_best.fitness <= best.fitness THEN current_best ELSE best

\* The incumbent after the comparison with the new population's best.
UpdatedBest(current_best, best) ==
    IF current_best.fitness < best.fitness THEN current_best ELSE best

\* The record as it would be if the last entry were overwritten.
Recorded_overwrite(history, entry) == [history EXCEPT ![Len(history)] = entry]

\* history.append(entry)
Recorded(history, entry) == Append(history, entry)

\* create_next_generation, when it returns.
create_next_generation ==
    /\ ~GenerationRaises
    /\ \E new_population \in NewPopulations(chromosomes, elitism_size, pop_size, distance_matrix) :
          LET current_best == find_best_chromosome(new_population)
          IN  /\ chromosomes' = new_population
              /\ current_generation' = current_generation + 1
              /\ best_solution' = UpdatedBest(current_best, best_solution)
              /\ best_fitness_history' = Recorded(best_fitness_history, current_best.fitness)
              /\ avg_fitness_history' =
                     Recorded(avg_fitness_history, get_average_fitness(new_population))

(***************************************************************************)
(* The engine run: Population(...), Genetic(population, ...), run().       *)
(***************************************************************************)
\* The problems the engine is run on: num_locations customers, num_vehicles
\* vehicles, and the distance matrix of dimension num_locations + 1.
Problems ==
    {[num_locations |-> 3, num_vehicles |-> 1],
     [num_locations |-> 2, num_vehicles |-> 2]}

\* No call of an operation on its own is under way.
NoCall == [op |-> "none"]

\* Population.__init__ then Genetic.__init__.
Init ==
    /\ \E problem \in Problems :
          /\ num_locations = problem.num_locations
          /\ num_vehicles = problem.num_vehicles
          /\ distance_matrix = Matrix(problem.num_locations + 1)
    /\ pop_size \in 1..MaxPop
    /\ chromosomes \in InitialPopulations(pop_size, num_locations, num_vehicles, distance_matrix)
    /\ max_generations \in 0..MaxGen
    /\ elitism_size \in 0..pop_size
    /\ current_generation = 0
    /\ best_solution = find_best_chromosome(chromosomes)
    /\ best_fitness_history = <<find_best_chromosome(chromosomes).fitness>>
    /\ avg_fitness_history = <<get_average_fitness(chromosomes)>>
    /\ pc = "constructed"
    /\ generation = None
    /\ returned = None
    /\ call = NoCall
    /\ result = None

\* run is called: `for generation in range(1, self.max_generations + 1)`.
RunEnter ==
    /\ pc = "constructed"
    /\ pc' = "running"
    /\ generation' = 1
    /\ UNCHANGED <<population_vars, parameter_vars, engine_vars, returned, call, result>>

\* One iteration of the loop of run: create_next_generation returns.
RunGeneration ==
    /\ pc = "running"
    /\ generation <= max_generations
    /\ create_next_generation
    /\ generation' = generation + 1
    /\ UNCHANGED <<population_vars, parameter_vars, pc, returned, call, result>>

\* One iteration of the loop of run: create_next_generation raises, and
\* the exception leaves run.
RunRaise ==
    /\ pc = "running"
    /\ generation <= max_generations
    /\ GenerationRaises
    /\ pc' = "raised"
    /\ UNCHANGED <<population_vars, parameter_vars, engine_vars, generation, returned, call, result>>

\* The return as it would be with the loop over range(1, max_generations):
\* run may return with the last generation not run.
RunReturn_early ==
    /\ pc = "running"
    /\ generation >= max_generations
    /\ pc' = "returned"
    /\ returned' = best_solution
    /\ UNCHANGED <<population_vars, parameter_vars, engine_vars, generation, call, result>>

\* The loop of run is exhausted: `return self.best_solution`.
RunReturn ==
    /\ pc = "running"
    /\ generation > max_generations
    /\ pc' = "returned"
    /\ returned' = best_solution
    /\ UNCHANGED <<population_vars, parameter_vars, engine_vars, generation, call, result>>

Next == RunEnter \/ RunGeneration \/ RunRaise \/ RunReturn

Spec == Init /\ [][Next]_vars

\* The step of the for loop of run, as the loop variable shows it: the loop
\* is not exhausted, create_next_generation does not raise, and generation
\* moves to the next value of the range.  RunGeneration is the only step of
\* Next that changes generation this way, and whenever this guard holds
\* RunGeneration can be taken (GenerationCanReturn).
GenerationStep ==
    /\ pc = "running"
    /\ generation <= max_generations
    /\ ~GenerationRaises
    /\ generation' = generation + 1

\* create_next_generation has an outcome whenever it does not raise.
GenerationCanReturn ==
    (pc = "running" /\ generation <= max_generations /\ ~GenerationRaises)
        => NewPopulations(chromosomes, elitism_size, pop_size, distance_matrix) # {}

\* run is one sequential, synchronous loop with no suspension point: the
\* call, once made, enters the loop; an iteration that can run does run;
\* an exception leaves the call; the exhausted loop returns.
FairSpec ==
    /\ Spec
    /\ WF_vars(RunEnter)
    /\ WF_generation(GenerationStep)
    /\ WF_vars(RunRaise)
    /\ WF_vars(RunReturn)

(***************************************************************************)
(* The engine built with parameters outside the documented ranges.         *)
(* Population.__init__, Chromosome.__init__ and Genetic.__init__ store     *)
(* their arguments as given: there is no check of pop_size, num_vehicles   *)
(* or elitism_size, and the constructions below all complete.              *)
(***************************************************************************)
\* The parameters are outside the documented ranges.
Degenerate == pop_size < 2 \/ num_vehicles < 1 \/ elitism_size > pop_size

\* The problems of Problems, and one without a vehicle: range(num_locations
\* + num_vehicles - 1) is then range(num_locations - 1).
DegenerateProblems == Problems \cup {[num_locations |-> 3, num_vehicles |-> 0]}

\* Population.__init__ then Genetic.__init__, on degenerate parameters.
\* (pop_size = 0 is left out: Population(0, ...) is built, and
\* Genetic.__init__ then fails on `best_chrom.fitness`, best_chrom being
\* None.)
InitDegenerate ==
    /\ \E problem \in DegenerateProblems :
          /\ num_locations = problem.num_locations
          /\ num_vehicles = problem.num_vehicles
          /\ distance_matrix = Matrix(problem.num_locations + 1)
    /\ pop_size \in 1..MaxPop
    /\ chromosomes \in InitialPopulations(pop_size, num_locations, num_vehicles, distance_matrix)
    /\ max_generations \in 0..MaxGen
    /\ elitism_size \in 0..(pop_size + 1)
    /\ Degenerate
    /\ current_generation = 0
    /\ best_solution = find_best_chromosome(chromosomes)
    /\ best_fitness_history = <<find_best_chromosome(chromosomes).fitness>>
    /\ avg_fitness_history = <<get_average_fitness(chromosomes)>>
    /\ pc = "constructed"
    /\ generation = None
    /\ returned = None
    /\ call = NoCall
    /\ result = None

SpecDegenerate == InitDegenerate /\ [][Next]_vars

(***************************************************************************)
(* The construction on its own: Population(pop_size, num_locations,        *)
(* num_vehicles, distance_matrix) with a matrix of any dimension up to the *)
(* documented num_locations + 1, then Genetic(population, ...).            *)
(***************************************************************************)
\* distance_matrix[from_idx][to_idx] raises IndexError: an index at or
\* beyond the dimension (the indices calculate_fitness builds are never
\* negative).
IndexRaises(dm, from_idx, to_idx) ==
    IF from_idx \in DOMAIN dm THEN to_idx \notin DOMAIN dm[from_idx] ELSE TRUE

\* calculate_fitness raises on one of the legs of one of the routes.
FitnessRaises(c, dm) ==
    LET routes == get_routes(c)
    IN  \E r \in 1..Len(routes) : \E i \in 1..(Len(routes[r]) - 1) :
            IndexRaises(dm, MatrixIndex(routes[r][i]), MatrixIndex(routes[r][i + 1]))

\* The lists of n elements of a set.
RECURSIVE Lists(_, _)
Lists(n, S) ==
    IF n = 0 THEN {<< >>} ELSE {Append(l, x) : l \in Lists(n - 1, S), x \in S}

\* The construction as it would be without the call of calculate_fitness in
\* the loop: nothing reads the matrix, every chromosome is left unevaluated.
initialize_population_lazy(n, nl, nv, dm) ==
    {[raised |-> FALSE, chromosomes |-> l] : l \in Lists(n, RandomChromosomes(nl, nv))}

\* initialize_population, every outcome: the loop raises out of
\* calculate_fitness at an iteration whose chromosome reads outside the
\* matrix (self.chromosomes then holds the chromosomes appended before), or
\* it appends pop_size evaluated chromosomes.
initialize_population(n, nl, nv, dm) ==
    LET drawn == RandomChromosomes(nl, nv)
        fits == {Evaluated(c, dm) : c \in {d \in drawn : ~FitnessRaises(d, dm)}}
        canRaise == \E d \in drawn : FitnessRaises(d, dm)
    IN  {[raised |-> FALSE, chromosomes |-> l] : l \in Lists(n, fits)}
        \cup (IF canRaise
              THEN UNION {{[raised |-> TRUE, chromosomes |-> l] : l \in Lists(k, fits)} :
                              k \in 0..(n - 1)}
              ELSE {})

\* The arguments of the constructions: the problem and the dimension of the
\* matrix, from empty to the documented num_locations + 1.
ConstructionProblems ==
    {a \in {[num_locations |-> nl, num_vehicles |-> nv, dimension |-> d] :
                nl \in 1..3, nv \in 1..2, d \in 0..4} :
         a.dimension <= a.num_locations + 1}

\* Population.__init__, lines 20-24: the arguments stored, the list empty.
InitConstruction ==
    /\ \E problem \in ConstructionProblems :
          /\ num_locations = problem.num_locations
          /\ num_vehicles = problem.num_vehicles
          /\ distance_matrix = Matrix(problem.dimension)
    /\ pop_size \in 1..MaxPop
    /\ chromosomes = << >>
    /\ max_generations \in 0..MaxGen
    /\ elitism_size = 0
    /\ current_generation = 0
    /\ best_solution = None
    /\ best_fitness_history = << >>
    /\ avg_fitness_history = << >>
    /\ pc = "Population"
    /\ generation = None
    /\ returned = None
    /\ call = NoCall
    /\ result = None

\* Population.__init__, line 27: initialize_population returns or raises.
PopulationInit ==
    /\ pc = "Population"
    /\ \E outcome \in initialize_population(pop_size, num_locations, num_vehicles,
                                             distance_matrix) :
          /\ chromosomes' = outcome.chromosomes
          /\ pc' = IF outcome.raised THEN "IndexError" ELSE "Genetic"
    /\ UNCHANGED <<population_vars, parameter_vars, current_generation, best_solution,
                   best_fitness_history, avg_fitness_history, generation, returned,
                   call, result>>

\* Genetic.__init__ on the population built.
GeneticInit ==
    /\ pc = "Genetic"
    /\ current_generation' = 0
    /\ best_solution' = find_best_chromosome(chromosomes)
    /\ best_fitness_history' = <<find_best_chromosome(chromosomes).fitness>>
    /\ avg_fitness_history' = <<get_average_fitness(chromosomes)>>
    /\ pc' = "constructed"
    /\ UNCHANGED <<population_vars, parameter_vars, chromosomes, generation, returned,
                   call, result>>

NextConstruction == PopulationInit \/ GeneticInit

SpecConstruction == InitConstruction /\ [][NextConstruction]_vars

(***************************************************************************)
(* A chromosome operation called on its own: get_routes and                *)
(* calculate_fitness on a chromosome of any permutation genes.             *)
(***************************************************************************)
\* The engine is not there (the operation is called on its own).
NoEngine ==
    /\ pop_size = 0
    /\ num_locations = 0
    /\ num_vehicles = 0
    /\ distance_matrix = << >>
    /\ chromosomes = << >>
    /\ max_generations = 0
    /\ elitism_size = 0
    /\ current_generation = 0
    /\ best_solution = None
    /\ best_fitness_history = << >>
    /\ avg_fitness_history = << >>
    /\ pc = "none"
    /\ generation = None
    /\ returned = None

engine_all_vars == <<population_vars, parameter_vars, engine_vars, pc, generation, returned>>

\* The problem of the specification's worked example.
ExampleProblem == [num_locations |-> 5, num_vehicles |-> 2]

\* The problem sizes of the chromosomes handed to the chromosome operations.
ChromosomeProblems ==
    {[num_locations |-> nl, num_vehicles |-> nv] : nl \in 2..MaxLoc, nv \in 1..MaxVeh}
    \cup {ExampleProblem}

\* A chromosome as Chromosome(num_locations, num_vehicles) builds it, and
\* the distance matrix of its problem.
InitChromosome ==
    /\ NoEngine
    /\ \E problem \in ChromosomeProblems :
          \E c \in RandomChromosomes(problem.num_locations, problem.num_vehicles) :
             call = [op |-> "none", chromosome |-> c,
                     distance_matrix |-> Matrix(problem.num_locations + 1)]
    /\ result = None

\* routes = chromosome.get_routes()
CallGetRoutes ==
    /\ call' = [call EXCEPT !.op = "get_routes"]
    /\ result' = get_routes(call.chromosome)
    /\ UNCHANGED engine_all_vars

\* total = chromosome.calculate_fitness(distance_matrix)
CallCalculateFitness ==
    /\ call' = [call EXCEPT !.op = "calculate_fitness",
                            !.chromosome = Evaluated(call.chromosome, call.distance_matrix)]
    /\ result' = calculate_fitness(call.chromosome, call.distance_matrix)
    /\ UNCHANGED engine_all_vars

NextChromosome == CallGetRoutes \/ CallCalculateFitness

SpecChromosome == InitChromosome /\ [][NextChromosome]_vars

(***************************************************************************)
(* A genetic operator called on its own: crossover of two parents whose    *)
(* genes are permutations of the same values.                              *)
(***************************************************************************)
\* The parents handed to crossover: every pair of chromosomes of a problem
\* of gene length up to MaxLen; and, for the example problem (gene length
\* 6), the identity ordering paired with every chromosome, either way round.
ParentPairs ==
    UNION {LET dm == Matrix(n + 1)
               cs == {Evaluated(c, dm) : c \in RandomChromosomes(n, 1)}
           IN  cs \X cs : n \in 2..MaxLen}
    \cup
    LET nl == ExampleProblem.num_locations
        nv == ExampleProblem.num_vehicles
        dm == Matrix(nl + 1)
        first == Evaluated(Chromosome(nl, nv, Range(nl + nv - 1)), dm)
        cs == {Evaluated(c, dm) : c \in RandomChromosomes(nl, nv)}
    IN  ({first} \X cs) \cup (cs \X {first})

InitCrossover ==
    /\ NoEngine
    /\ \E parents \in ParentPairs :
          call = [op |-> "none", parent1 |-> parents[1], parent2 |-> parents[2],
                  point1 |-> None, point2 |-> None]
    /\ result = None

\* offspring1, offspring2 = genetic.crossover(parent1, parent2)
CallCrossover ==
    /\ call.op = "none"
    /\ \E pts \in CutPoints(Len(call.parent1.genes)) :
          /\ call' = [call EXCEPT !.op = "crossover", !.point1 = pts[1], !.point2 = pts[2]]
          /\ result' = crossover(call.parent1, call.parent2, pts[1], pts[2])
    /\ UNCHANGED engine_all_vars

NextCrossover == CallCrossover

SpecCrossover == InitCrossover /\ [][NextCrossover]_vars

(***************************************************************************)
(* The steps of a reproduction round called on their own, on a population  *)
(* as Population builds it: selection, the choice of the parents and their *)
(* crossover (the head of the while body), and mutate.                     *)
(***************************************************************************)
\* The problems of Problems, and the smallest one (genes of length 2).
OperatorProblems == Problems \cup {[num_locations |-> 2, num_vehicles |-> 1]}

\* A population of at least 2 chromosomes, no engine around it.
InitOperators ==
    /\ \E problem \in OperatorProblems :
          /\ num_locations = problem.num_locations
          /\ num_vehicles = problem.num_vehicles
          /\ distance_matrix = Matrix(problem.num_locations + 1)
    /\ pop_size \in 2..MaxPop
    /\ chromosomes \in InitialPopulations(pop_size, num_locations, num_vehicles, distance_matrix)
    /\ max_generations = 0
    /\ elitism_size = 0
    /\ current_generation = 0
    /\ best_solution = None
    /\ best_fitness_history = << >>
    /\ avg_fitness_history = << >>
    /\ pc = "none"
    /\ generation = None
    /\ returned = None
    /\ call = NoCall
    /\ result = None

\* selected = genetic.selection(): two tournaments, the positions
\* random.sample drew in each kept with the call, and the population as it
\* was when the call was made.
CallSelection ==
    /\ call.op = "none"
    /\ \E draw1 \in Sample2(Len(chromosomes)), draw2 \in Sample2(Len(chromosomes)) :
          /\ call' = [op |-> "selection", draws |-> <<draw1, draw2>>,
                      population |-> chromosomes]
          /\ result' = <<Winner(<<chromosomes[draw1[1] + 1], chromosomes[draw1[2] + 1]>>),
                         Winner(<<chromosomes[draw2[1] + 1], chromosomes[draw2[2] + 1]>>)>>
    /\ UNCHANGED engine_all_vars

\* create_next_generation, lines 205-212: selection, random.choice(selected)
\* twice (the index each choice drew kept with the call), crossover of the
\* two chromosomes chosen.
CallParents ==
    /\ call.op = "none"
    /\ \E selected \in Selection(chromosomes) :
          /\ ~(Len(selected) < 2)
          /\ \E choice1 \in 0..(Len(selected) - 1), choice2 \in 0..(Len(selected) - 1) :
                LET parent1 == selected[choice1 + 1]
                    parent2 == selected[choice2 + 1]
                IN  \E pts \in CutPoints(Len(parent1.genes)) :
                       /\ call' = [op |-> "parents", selected |-> selected,
                                   choice1 |-> choice1, choice2 |-> choice2,
                                   parent1 |-> parent1, parent2 |-> parent2,
                                   point1 |-> pts[1], point2 |-> pts[2]]
                       /\ result' = crossover(parent1, parent2, pts[1], pts[2])
    /\ UNCHANGED engine_all_vars

\* mutated = genetic.mutate(chromosome) on a chromosome of the population:
\* the swap is made on `chromosome.genes.copy()`, and the chromosome handed
\* in is as it was.
CallMutate ==
    /\ call.op = "none"
    /\ \E k \in 1..Len(chromosomes) : \E p \in Sample2(Len(chromosomes[k].genes)) :
          /\ call' = [op |-> "mutate", index |-> k, chromosome |-> chromosomes[k],
                      pos1 |-> p[1], pos2 |-> p[2]]
          /\ result' = mutate(chromosomes[k], p[1], p[2])
    /\ UNCHANGED engine_all_vars

NextOperators == CallSelection \/ CallParents \/ CallMutate

SpecOperators == InitOperators /\ [][NextOperators]_vars

(***************************************************************************)
(* Properties                                                              *)
(***************************************************************************)
\* genes is a permutation of 0 .. n-1: length n, every value exactly once.
IsPermutation(genes, n) ==
    /\ Len(genes) = n
    /\ \A v \in 0..(n - 1) : Cardinality({i \in 1..Len(genes) : genes[i] = v}) = 1

\* The gene length of the engine's problem.
GeneLength == num_locations + num_vehicles - 1

\* C1 -- Permutation invariant of the run state: in every state of an engine
\* run (after construction and after any number of generations), the genes
\* of every chromosome of the population and of best_solution are a
\* permutation of 0 .. num_locations + num_vehicles - 2.
C1_PermutationInvariant ==
    (num_locations >= 2 /\ num_vehicles >= 1) =>
        /\ \A i \in 1..Len(chromosomes) : IsPermutation(chromosomes[i].genes, GeneLength)
        /\ IsPermutation(best_solution.genes, GeneLength)

\* C1, its case: a generation has run without elitism, so that the whole
\* population is offspring of crossover and mutation, and the incumbent was
\* replaced by one of them.
C1_Witness ==
    /\ current_generation >= 1
    /\ elitism_size = 0
    /\ Len(chromosomes) = 2
    /\ chromosomes[1].genes # chromosomes[2].genes
    /\ best_fitness_history[2] < best_fitness_history[1]
    /\ best_solution = find_best_chromosome(chromosomes)

\* The values of a list between two Python positions, as a set of
\* <<position, value>>.
Segment(genes, point1, point2) == {<<i, genes[i + 1]>> : i \in point1..(point2 - 1)}

\* genes holds every value of a set exactly once, and nothing else (so no
\* None).
IsPermutationOf(genes, values) ==
    /\ Len(genes) = Cardinality(values)
    /\ \A v \in values : Cardinality({i \in 1..Len(genes) : genes[i] = v}) = 1

\* C2 -- Crossover is permutation-safe: for parents whose genes are
\* permutations of the same value set and any cut points
\* 0 <= point1 < point2 < L, both offspring are permutations of that value
\* set, offspring 1 equals parent2 on point1 .. point2-1 and offspring 2
\* equals parent1 there.
C2_CrossoverPermutationSafe ==
    call.op = "crossover" =>
        LET values == Values(call.parent1.genes)
        IN  /\ 0 <= call.point1 /\ call.point1 < call.point2
            /\ call.point2 < Len(call.parent1.genes)
            /\ IsPermutationOf(result[1].genes, values)
            /\ IsPermutationOf(result[2].genes, values)
            /\ Segment(result[1].genes, call.point1, call.point2)
                   = Segment(call.parent2.genes, call.point1, call.point2)
            /\ Segment(result[2].genes, call.point1, call.point2)
                   = Segment(call.parent1.genes, call.point1, call.point2)

\* C2, its case: the specification's scenario, two different 6-length
\* permutations crossed at the cut points (1, 4), the offspring taking a
\* middle segment that differs from the filling parent's.
C2_Witness ==
    /\ call.op = "crossover"
    /\ Len(call.parent1.genes) = 6
    /\ call.point1 = 1 /\ call.point2 = 4
    /\ Segment(call.parent1.genes, 1, 4) # Segment(call.parent2.genes, 1, 4)
    /\ Values(Slice(call.parent1.genes, 1, 4)) # Values(Slice(call.parent2.genes, 1, 4))
    /\ result[1].genes # call.parent1.genes
    /\ result[1].genes # call.parent2.genes

\* The lists of a list of lists, joined in order.
RECURSIVE Flatten(_)
Flatten(lists) == IF lists = << >> THEN << >> ELSE Head(lists) \o Flatten(Tail(lists))

\* A route without its first and last stop.
Interior(route) == SubSeq(route, 2, Len(route) - 1)

\* The genes of the specification's worked example.
ExampleGenes == <<0, 1, 5, 2, 3, 4>>

\* The call is on the chromosome of the worked example.
OnExample ==
    /\ call.chromosome.num_locations = 5
    /\ call.chromosome.num_vehicles = 2
    /\ call.chromosome.genes = ExampleGenes

\* C3 -- Decode yields a partition of the locations: get_routes returns at
\* most num_vehicles routes, no route holds a delimiter value, every location
\* occurs in exactly one route exactly once, and the routes' interiors joined
\* in order are the genes with the delimiter values removed; genes
\* [0,1,5,2,3,4] with 5 locations and 2 vehicles decode to
\* [[-1,0,1,-1],[-1,2,3,4,-1]].
C3_DecodePartition ==
    call.op = "get_routes" =>
        LET c == call.chromosome
            nl == c.num_locations
        IN  /\ Len(result) <= c.num_vehicles
            /\ \A r \in 1..Len(result) : \A i \in 1..Len(result[r]) : result[r][i] < nl
            /\ \A v \in 0..(nl - 1) :
                  Cardinality({p \in {q \in (1..Len(result)) \X (1..Len(c.genes) + 2) :
                                          q[2] <= Len(result[q[1]])} :
                                   result[p[1]][p[2]] = v}) = 1
            /\ Flatten([r \in 1..Len(result) |-> Interior(result[r])])
                   = SelectSeq(c.genes, LAMBDA v : v < nl)
            /\ OnExample => result = <<(<<-1, 0, 1, -1>>), (<<-1, 2, 3, 4, -1>>)>>

\* C3, its case: the worked example has been decoded.
C3_Witness ==
    /\ call.op = "get_routes"
    /\ OnExample
    /\ Len(result) = 2

\* The gene at a Python position is a delimiter value.
IsDelimiterAt(c, i) == c.genes[i + 1] >= c.num_locations

\* The positions at which a non-empty segment of the genes starts: a
\* location that is the first gene or follows a delimiter.
SegmentStarts(c) ==
    {i \in 0..(Len(c.genes) - 1) :
        /\ ~IsDelimiterAt(c, i)
        /\ (i = 0 \/ IsDelimiterAt(c, i - 1))}

\* C4 -- Depot wrapping: every route get_routes returns starts and ends
\* with the depot sentinel -1 and has length at least 2, and empty segments
\* give no route: there are exactly as many routes as non-empty segments.
C4_DepotWrapping ==
    call.op = "get_routes" =>
        /\ \A r \in 1..Len(result) :
              /\ Len(result[r]) >= 2
              /\ result[r][1] = -1
              /\ result[r][Len(result[r])] = -1
        /\ Len(result) = Cardinality(SegmentStarts(call.chromosome))

\* C4, its case: a chromosome with two consecutive delimiters and a
\* delimiter as its last gene, decoded to fewer routes than vehicles.
C4_Witness ==
    /\ call.op = "get_routes"
    /\ LET c == call.chromosome
       IN  /\ \E i \in 0..(Len(c.genes) - 2) : IsDelimiterAt(c, i) /\ IsDelimiterAt(c, i + 1)
           /\ IsDelimiterAt(c, Len(c.genes) - 1)
           /\ Len(result) < c.num_vehicles
           /\ Len(result) >= 1

\* The sum of f[1] .. f[n].
RECURSIVE SumTo(_, _)
SumTo(f, n) == IF n = 0 THEN 0 ELSE f[n] + SumTo(f, n - 1)

\* The distance of a route with the depot at matrix index 0 and location v
\* at matrix index v + 1.
LegsOf(route, dm) ==
    SumTo([i \in 1..(Len(route) - 1) |->
              dm[IF route[i] = -1 THEN 0 ELSE route[i] + 1]
                [IF route[i + 1] = -1 THEN 0 ELSE route[i + 1] + 1]],
          Len(route) - 1)

\* C5 -- Fitness evaluation: calculate_fitness returns, and stores in
\* fitness, the sum over the decoded routes of the distances between
\* consecutive stops (depot at matrix index 0, location v at v + 1); the
\* worked example evaluates to 16.
C5_FitnessEvaluation ==
    call.op = "calculate_fitness" =>
        LET routes == get_routes(call.chromosome)
        IN  /\ result = SumTo([r \in 1..Len(routes) |-> LegsOf(routes[r], call.distance_matrix)],
                              Len(routes))
            /\ call.chromosome.fitness = result
            /\ OnExample => result = 16

\* C5, its case: the fitness of the worked example has been calculated.
C5_Witness ==
    /\ call.op = "calculate_fitness"
    /\ OnExample
    /\ call.chromosome.fitness = 16

\* The least fitness in a non-empty list of chromosomes.
MinFitness(chroms) ==
    CHOOSE f \in {chroms[i].fitness : i \in 1..Len(chroms)} :
        \A i \in 1..Len(chroms) : f <= chroms[i].fitness

\* C6 -- Incumbent bound: after construction and after every completed
\* create_next_generation, best_solution.fitness is at most the fitness of
\* every chromosome of the current population.
C6_IncumbentBound ==
    \A i \in 1..Len(chromosomes) : best_solution.fitness <= chromosomes[i].fitness

\* C6, its case: generations have run, the incumbent was replaced by a
\* strictly better chromosome of the new population, and it bounds the
\* population, some of whose chromosomes are strictly worse.
C6_Witness ==
    /\ current_generation >= 1
    /\ best_solution.fitness < best_fitness_history[1]
    /\ best_solution.fitness = MinFitness(chromosomes)
    /\ \E i \in 1..Len(chromosomes) : best_solution.fitness < chromosomes[i].fitness

\* C7 -- Monotonic incumbent: no step of the run raises
\* best_solution.fitness, whatever the elitism size and even when the new
\* population's best is worse than the previous population's.
C7_MonotonicIncumbent ==
    [][best_solution'.fitness <= best_solution.fitness]_vars

\* C7, its case: without elitism, a generation whose best is worse than the
\* previous generation's best, the incumbent staying strictly better than
\* the whole current population.
C7_Witness ==
    /\ elitism_size = 0
    /\ current_generation >= 1
    /\ best_fitness_history[current_generation + 1] > best_fitness_history[current_generation]
    /\ best_solution.fitness < MinFitness(chromosomes)

\* The first e chromosomes of new are e different members of old, in
\* ascending order of fitness, and no other member of old is fitter than any
\* of them.
ElitePreserved(old, new, e) ==
    /\ Len(new) >= e
    /\ \A i \in 1..(e - 1) : new[i].fitness <= new[i + 1].fitness
    /\ \E f \in [1..e -> 1..Len(old)] :
          /\ \A i, j \in 1..e : f[i] = f[j] => i = j
          /\ \A i \in 1..e : new[i] = old[f[i]]
          /\ \A k \in (1..Len(old)) \ {f[i] : i \in 1..e} :
                \A i \in 1..e : new[i].fitness <= old[k].fitness

\* C8 -- Elitism preservation: for 0 <= elitism_size <= pop_size, after
\* create_next_generation the first elitism_size chromosomes of the new
\* population are copies (same genes, same fitness) of the elitism_size
\* fittest chromosomes of the previous population, in ascending order of
\* fitness.
C8_ElitismPreservation ==
    [][(current_generation' # current_generation
            /\ 0 <= elitism_size /\ elitism_size <= pop_size)
        => ElitePreserved(chromosomes, chromosomes', elitism_size)]_vars

\* C8, its case: a generation has run with an elite of one in a population
\* of two, and the offspring beside the elite is strictly fitter than it
\* (the elite is kept whatever reproduction produced).
C8_Witness ==
    /\ current_generation >= 1
    /\ elitism_size = 1
    /\ Len(chromosomes) = 2
    /\ chromosomes[2].fitness < chromosomes[1].fitness
    /\ best_solution = chromosomes[2]

\* s is a prefix of t.
IsPrefix(s, t) == Len(s) <= Len(t) /\ SubSeq(t, 1, Len(s)) = s

\* C9 -- History length: both histories always hold current_generation + 1
\* entries, entries once appended are never changed or removed, and when run
\* has returned on a newly constructed engine both hold max_generations + 1
\* entries.
C9_HistoryLength ==
    /\ [](/\ Len(best_fitness_history) = current_generation + 1
          /\ Len(avg_fitness_history) = current_generation + 1
          /\ pc = "returned" =>
                /\ Len(best_fitness_history) = max_generations + 1
                /\ Len(avg_fitness_history) = max_generations + 1)
    /\ [][/\ IsPrefix(best_fitness_history, best_fitness_history')
          /\ IsPrefix(avg_fitness_history, avg_fitness_history')]_vars

\* C9, its case: run has returned after at least one generation, with one
\* entry per generation and the entry of generation 0 kept.
C9_Witness ==
    /\ pc = "returned"
    /\ max_generations >= 1
    /\ Len(best_fitness_history) = max_generations + 1
    /\ best_fitness_history[1] # best_fitness_history[2]

C12_FitnessConsistency ==
    \A i \in 1..Len(chromosomes) :
        /\ chromosomes[i].fitness # None
        /\ chromosomes[i].fitness = calculate_fitness(chromosomes[i], distance_matrix)

\* C12, its case: a generation has run with one elite copy and one offspring
\* whose genes differ from the elite's and whose fitness is another value.
C12_Witness ==
    /\ current_generation >= 1
    /\ elitism_size = 1
    /\ Len(chromosomes) = 2
    /\ chromosomes[2].genes # chromosomes[1].genes
    /\ chromosomes[2].fitness # chromosomes[1].fitness

\* C13 -- Degenerate parameters are rejected at construction: with
\* pop_size < 2, num_vehicles < 1 or elitism_size > pop_size the
\* construction ends in an error, so an engine with such parameters never
\* completes a generation step, never fails in the middle of run and never
\* returns a result.
C13_DegenerateRejected ==
    Degenerate => (current_generation = 0 /\ pc \notin {"raised", "returned"})

\* The matrix is smaller than num_locations + 1.
Undersized == Cardinality(DOMAIN distance_matrix) < num_locations + 1

\* C14 -- An undersized distance matrix is an error of the Population
\* construction: for every pop_size >= 1, every outcome of the construction
\* with a matrix of dimension below num_locations + 1 is the IndexError, so
\* the population is never handed to Genetic and no engine is built on it.
C14_UndersizedMatrixFails ==
    (Undersized /\ pop_size >= 1) =>
        /\ pc \in {"Population", "IndexError"}
        /\ chromosomes = << >>
        /\ best_solution = None
        /\ LET outcomes == initialize_population(pop_size, num_locations, num_vehicles,
                                                 distance_matrix)
           IN  outcomes # {} /\ \A outcome \in outcomes : outcome.raised

\* C14, its case: a population of 2 was asked for with a matrix one row and
\* one column short, for a problem with delimiters in the genes, and the
\* construction has raised.
C14_Witness ==
    /\ pc = "IndexError"
    /\ pop_size = 2
    /\ num_vehicles = 2
    /\ Cardinality(DOMAIN distance_matrix) = num_locations

\* C15 -- Defensive loop exit: with a population of fewer than 2
\* chromosomes the reproduction loop of create_next_generation ends
\* normally, through `if len(selected) < 2: break`, and no error leaves
\* create_next_generation (and so none leaves run).
C15_DefensiveLoopExit ==
    Len(chromosomes) < 2 => pc # "raised"

\* C16 -- The parents of a round are the two winners of its selection: the
\* chromosome handed to crossover as parent1 is the first winner
\* (selected[0]) and the one handed in as parent2 is the second winner
\* (selected[1]); a round never crosses one winner with itself.
C16_ParentsAreTheWinners ==
    call.op = "parents" =>
        /\ call.choice1 = 0 /\ call.parent1 = call.selected[1]
        /\ call.choice2 = 1 /\ call.parent2 = call.selected[2]

\* C17 -- Binary tournament selection: on a population of at least 2
\* chromosomes selection returns exactly 2 winners; each winner is the
\* chromosome at one of the two distinct positions drawn for its tournament
\* and its fitness is less than or equal to the fitness of the chromosome at
\* the other position; the population and its chromosomes are as they were.
C17_BinaryTournament ==
    call.op = "selection" =>
        /\ Len(result) = 2
        /\ \A k \in 1..2 :
              LET draw == call.draws[k]
              IN  /\ draw[1] # draw[2]
                  /\ draw[1] \in 0..(Len(chromosomes) - 1)
                  /\ draw[2] \in 0..(Len(chromosomes) - 1)
                  /\ \/ /\ result[k] = chromosomes[draw[1] + 1]
                        /\ result[k].fitness <= chromosomes[draw[2] + 1].fitness
                     \/ /\ result[k] = chromosomes[draw[2] + 1]
                        /\ result[k].fitness <= chromosomes[draw[1] + 1].fitness
        /\ chromosomes = call.population
        /\ Len(chromosomes) = pop_size

\* C17, its case: two tournaments on a population of unequal fitness, the
\* first won by the contender drawn second, the second by the contender
\* drawn first, over different pairs of positions or the same pair reversed.
C17_Witness ==
    /\ call.op = "selection"
    /\ Len(chromosomes) >= 2
    /\ call.draws[1] # call.draws[2]
    /\ result[1] = chromosomes[call.draws[1][2] + 1]
    /\ result[1].fitness < chromosomes[call.draws[1][1] + 1].fitness
    /\ result[2] = chromosomes[call.draws[2][1] + 1]
    /\ result[2].fitness < chromosomes[call.draws[2][2] + 1].fitness

\* C19 -- Swap mutation: for a chromosome with permutation genes of length
\* >= 2, mutate returns a new chromosome whose genes differ from the input's
\* at exactly two distinct positions, the values there exchanged; the input
\* chromosome keeps its genes and its fitness; the fitness of the returned
\* chromosome is None.
C19_SwapMutation ==
    call.op = "mutate" =>
        LET before == call.chromosome
            input == chromosomes[call.index]
            changed == {i \in 1..Len(before.genes) : result.genes[i] # before.genes[i]}
        IN  /\ Len(before.genes) >= 2
            /\ Len(result.genes) = Len(before.genes)
            /\ call.pos1 # call.pos2
            /\ changed = {call.pos1 + 1, call.pos2 + 1}
            /\ Cardinality(changed) = 2
            /\ result.genes[call.pos1 + 1] = before.genes[call.pos2 + 1]
            /\ result.genes[call.pos2 + 1] = before.genes[call.pos1 + 1]
            /\ input.genes = before.genes
            /\ input.fitness = before.fitness
            /\ input.fitness # None
            /\ result.fitness = None
            /\ result.num_locations = before.num_locations
            /\ result.num_vehicles = before.num_vehicles

\* C19, its case: the second chromosome of a population was mutated at its
\* second and first positions, the new gene order is one that no chromosome
\* of the population has, and its fitness would be another value.
C19_Witness ==
    /\ call.op = "mutate"
    /\ call.index = 2
    /\ call.pos1 = 1
    /\ call.pos2 = 0
    /\ \A i \in 1..Len(chromosomes) : chromosomes[i].genes # result.genes
    /\ calculate_fitness(result, distance_matrix) # call.chromosome.fitness

\* The genes at the positions outside point1 .. point2-1, left to right.
Outside(genes, point1, point2) == Slice(genes, 0, point1) \o Slice(genes, point2, Len(genes))

\* The values of a parent that do not occur in a segment, in the parent's
\* order.
Remaining(genes, segment) == SelectSeq(genes, LAMBDA v : v \notin Values(segment))

\* C18 -- Crossover fill order: for permutation parents P1, P2 and cut
\* points p1 < p2, the positions of offspring 1 outside p1 .. p2-1, read
\* left to right, hold exactly the values of P1 that do not occur in
\* P2[p1:p2], in the order they have in P1; offspring 2 likewise with the
\* parents exchanged.
C18_CrossoverFillOrder ==
    call.op = "crossover" =>
        LET P1 == call.parent1.genes
            P2 == call.parent2.genes
            p1 == call.point1
            p2 == call.point2
        IN  /\ p1 < p2
            /\ Outside(result[1].genes, p1, p2) = Remaining(P1, Slice(P2, p1, p2))
            /\ Outside(result[2].genes, p1, p2) = Remaining(P2, Slice(P1, p1, p2))

\* C18, its case: a crossover whose fill had to skip a value of P1 ahead of
\* the cut (the value at P1's first position is in the middle segment taken
\* from P2), with positions to fill on both sides of the segment, and the
\* fill differs from what P1 has at those positions.
C18_Witness ==
    /\ call.op = "crossover"
    /\ call.point1 >= 1
    /\ call.point2 < Len(call.parent1.genes)
    /\ call.parent1.genes[1] \in Values(Slice(call.parent2.genes, call.point1, call.point2))
    /\ Outside(result[1].genes, call.point1, call.point2)
           # Outside(call.parent1.genes, call.point1, call.point2)
    /\ Outside(result[2].genes, call.point1, call.point2)
           # Outside(call.parent2.genes, call.point1, call.point2)

\* C20 -- Incumbent update only on strict improvement: in a step of
\* create_next_generation, best_solution becomes (a copy of) a chromosome of
\* the new population of the lowest fitness there exactly when that fitness
\* is strictly lower than best_solution.fitness; when it is equal or higher,
\* best_solution keeps its genes and fitness, although the population it
\* came from has been replaced.
C20_StrictImprovementOnly ==
    [][current_generation' = current_generation + 1 =>
          LET lowest == MinFitness(chromosomes')
          IN  IF lowest < best_solution.fitness
              THEN /\ best_solution'.fitness = lowest
                   /\ \E i \in 1..Len(chromosomes') : chromosomes'[i] = best_solution'
                   /\ best_solution' # best_solution
              ELSE best_solution' = best_solution]_vars

\* C20, its case: a generation without elitism whose best has the fitness
\* of the incumbent and other genes; the incumbent was kept, and it is no
\* chromosome of the population any more.
C20_Witness ==
    /\ current_generation >= 1
    /\ elitism_size = 0
    /\ Len(chromosomes) >= 2
    /\ best_fitness_history[current_generation + 1] = best_solution.fitness
    /\ \A i \in 1..Len(chromosomes) : chromosomes[i].genes # best_solution.genes

\* C21 -- With 1 <= elitism_size <= pop_size the best of the current
\* population never regresses: best_fitness_history is non-increasing, and
\* after construction and after every create_next_generation
\* best_solution.fitness is the last entry of best_fitness_history, which is
\* the lowest fitness of the current population.
C21_ElitistBestNeverRegresses ==
    (1 <= elitism_size /\ elitism_size <= pop_size) =>
        /\ \A i \in 1..(Len(best_fitness_history) - 1) :
              best_fitness_history[i + 1] <= best_fitness_history[i]
        /\ best_solution.fitness = best_fitness_history[Len(best_fitness_history)]
        /\ best_solution.fitness = MinFitness(chromosomes)

\* C21, its case: with one elite copy in a population of at least 2, a
\* generation has run whose offspring are all worse than the elite, and the
\* best of the population is what it was.
C21_Witness ==
    /\ elitism_size = 1
    /\ pop_size >= 2
    /\ current_generation >= 1
    /\ \A i \in 2..Len(chromosomes) : chromosomes[i].fitness > chromosomes[1].fitness
    /\ best_fitness_history[current_generation + 1] = best_fitness_history[current_generation]
    /\ best_solution = chromosomes[1]

\* C22 -- Crossover of a parent with itself is the identity: when parent1
\* and parent2 have the same permutation genes (in particular when they are
\* the same chromosome, chosen twice in a round), then for every pair of cut
\* points both offspring have the parent's genes.
C22_SelfCrossoverIdentity ==
    (call.op \in {"crossover", "parents"} /\ call.parent1.genes = call.parent2.genes) =>
        /\ result[1].genes = call.parent1.genes
        /\ result[2].genes = call.parent1.genes

\* C22, its case: two parents of the same genes, of length 4 or more, were
\* crossed at cut points with genes to fill on both sides of the segment.
C22_Witness ==
    /\ call.op = "crossover"
    /\ call.parent1.genes = call.parent2.genes
    /\ Len(call.parent1.genes) >= 4
    /\ call.point1 >= 1
    /\ call.point2 - call.point1 >= 2
    /\ call.point2 < Len(call.parent1.genes)
    /\ result[1].genes = call.parent1.genes

\* A round has chosen the same winner twice, the other winner having other
\* genes, and both offspring have the genes of the chromosome chosen.
RoundCrossesOneWinner ==
    /\ call.op = "parents"
    /\ call.choice1 = call.choice2
    /\ call.selected[1].genes # call.selected[2].genes
    /\ result[1].genes = call.parent1.genes
    /\ result[2].genes = call.parent1.genes

====
